---- MODULE Spec2Model ----
(***************************************************************************)
(* Model of zerver/lib/error_notify.py: formatting of browser and server   *)
(* error reports and their dispatch to administrator email and to the      *)
(* "errors" stream.                                                        *)
(*                                                                         *)
(* Strings are sequences of tokens.  A token is a TLA+ string; CR and LF   *)
(* are always tokens of their own ("\r", "\n"), so that escaping can be    *)
(* modelled by what it does.  A Python value is a record with a type tag.  *)
(* A dict is a function over AllKeys whose value Absent means "key not in  *)
(* the dict".                                                              *)
(***************************************************************************)
EXTENDS Integers, Sequences, FiniteSets, TLC

VARIABLES
    settings_ERROR_BOT,  \* django settings.ERROR_BOT
    entry,               \* the function the caller invoked
    arg_type,            \* do_report_error's type argument
    arg_deployment_name, \* do_report_error's deployment_name argument
    skip_error_zulip,    \* notify_server_error's skip_error_zulip argument
    arg_report,          \* the caller's mapping as it was when the call began
    caller_report,       \* the caller's mapping now
    report,              \* the defaultdict local to notify_*_error
    todo,                \* formatter calls notify_*_error still has to make
    pc,                  \* position of the call
    trace,               \* formatter invocations and backend calls, in order
    outcome,             \* "running", "returned" or "raised"
    response,            \* value returned by the entry function
    exception            \* exception propagated out of the entry function

vars == <<settings_ERROR_BOT, entry, arg_type, arg_deployment_name,
          skip_error_zulip, arg_report, caller_report, report, todo, pc,
          trace, outcome, response, exception>>

----------------------------------------------------------------------------
(* Bounds of the model *)

\* a report differs from a complete one in at most this many keys
MaxEdits == 1

----------------------------------------------------------------------------
(* Python values *)

None     == [t |-> "none",   s |-> <<>>, m |-> <<>>]
Absent   == [t |-> "absent", s |-> <<>>, m |-> <<>>]
Str(s)   == [t |-> "str",    s |-> s,    m |-> <<>>]
Bool(b)  == [t |-> "bool",   s |-> IF b THEN <<"True">> ELSE <<"False">>, m |-> <<>>]
Dict(m)  == [t |-> "dict",   s |-> <<>>, m |-> m]

\* Python truth value of v
Truthy(v) ==
    CASE v.t = "str"  -> v.s # <<>>
      [] v.t = "bool" -> v.s = <<"True">>
      [] v.t = "dict" -> v.m # <<>>
      [] OTHER        -> FALSE

RECURSIVE ItemsRepr(_)
ItemsRepr(m) ==
    IF m = <<>> THEN <<>>
    ELSE <<"'", m[1][1], "': '", m[1][2], "'">>
         \o (IF Len(m) > 1 THEN <<", ">> ELSE <<>>) \o ItemsRepr(Tail(m))

\* str(v), as str.format and f-strings render a value
PyStr(v) ==
    CASE v.t = "none" -> <<"None">>
      [] v.t = "dict" -> <<"{">> \o ItemsRepr(v.m) \o <<"}">>
      [] OTHER        -> v.s

BrowserKeys == {"user_full_name", "user_email", "deployment", "message",
                "stacktrace", "ip_address", "user_agent", "href",
                "server_path", "version", "more_info", "log"}

ServerKeys == {"node", "message", "logger_name", "log_module", "log_lineno",
               "user_full_name", "user_email", "deployment", "deployment_data",
               "has_request", "path", "method", "data", "remote_addr",
               "query_string", "server_name", "stack_trace"}

AllKeys == BrowserKeys \cup ServerKeys

EmptyDict == [k \in AllKeys |-> Absent]

Has(d, k) == d[k] # Absent

\* d[k] = v on a dict
SetItem(d, k, v) == [d EXCEPT ![k] = v]

\* the dict left behind by d[k] on a defaultdict(lambda: None): a missing key
\* is inserted with the default
Touch(d, k) == IF Has(d, k) THEN d ELSE SetItem(d, k, None)

\* d.get(k): the default, and no insertion
Get(d, k) == IF Has(d, k) THEN d[k] ELSE None

----------------------------------------------------------------------------
(* str.format with the report unpacked as keyword arguments *)

L(s) == [lit |-> s, key |-> ""]
F(k) == [lit |-> "", key |-> k]
NL   == L("\n")

NoExc             == [type |-> "", arg |-> ""]
KeyError(k)       == [type |-> "KeyError", arg |-> k]
AttributeError(a) == [type |-> "AttributeError", arg |-> a]
DoesNotExist      == [type |-> "Stream.DoesNotExist", arg |-> "errors"]
SMTPException     == [type |-> "SMTPException", arg |-> ""]

\* the replacement fields of a template, in order
RECURSIVE Fields(_)
Fields(tpl) ==
    IF tpl = <<>> THEN <<>>
    ELSE (IF Head(tpl).key = "" THEN <<>> ELSE <<Head(tpl).key>>) \o Fields(Tail(tpl))

\* ** unpacks the keys the dict holds into keyword arguments, so the default
\* factory is not consulted: the first field that is not a key raises KeyError
RECURSIVE FirstMissing(_, _)
FirstMissing(ks, d) ==
    IF ks = <<>> THEN ""
    ELSE IF ~Has(d, Head(ks)) THEN Head(ks)
    ELSE FirstMissing(Tail(ks), d)

FormatExc(tpl, d) ==
    LET k == FirstMissing(Fields(tpl), d)
    IN  IF k = "" THEN NoExc ELSE KeyError(k)

RECURSIVE Format(_, _)
Format(tpl, d) ==
    IF tpl = <<>> THEN <<>>
    ELSE (IF Head(tpl).key = "" THEN <<Head(tpl).lit>> ELSE PyStr(d[Head(tpl).key]))
         \o Format(Tail(tpl), d)

----------------------------------------------------------------------------
(* External collaborators *)

\* zerver.filters.clean_data_from_query_parameters: the value of every
\* name=value parameter, up to the next & or the end, becomes ******
RECURSIVE SkipValue(_)
SkipValue(q) ==
    IF q = <<>> \/ Head(q) = "&" THEN q ELSE SkipValue(Tail(q))

IsParamName(tok) == tok \notin {"=", "&", "\n", "\r"}

RECURSIVE clean_data_from_query_parameters(_)
clean_data_from_query_parameters(q) ==
    IF q = <<>> THEN <<>>
    ELSE IF /\ Len(q) >= 3
            /\ IsParamName(q[1])
            /\ q[2] = "="
            /\ q[3] # "&"
         THEN <<q[1], "=", "******">>
              \o clean_data_from_query_parameters(SkipValue(Tail(Tail(q))))
         ELSE <<Head(q)>> \o clean_data_from_query_parameters(Tail(q))

\* zerver.models.get_system_bot: the bot user of that email, in its realm
get_system_bot(email) == [email |-> email, realm |-> "zulipinternal"]

\* zerver.models.get_stream: the stream of that name in the realm
get_stream(name, realm) == [name |-> name, realm |-> realm]

----------------------------------------------------------------------------
(* Formatting helpers.  A helper that reads the report through report[k]   *)
(* returns the report it leaves behind as well.                            *)

Text(txt)          == [exc |-> NoExc, text |-> txt]
TextExc(e)         == [exc |-> e, text |-> <<>>]
TextOn(d, txt)     == [exc |-> NoExc, report |-> d, text |-> txt]
TextExcOn(d, e)    == [exc |-> e, report |-> d, text |-> <<>>]

RECURSIVE format_email_subject(_)
format_email_subject(email_subject) ==
    IF email_subject = <<>> THEN <<>>
    ELSE (CASE Head(email_subject) = "\n" -> <<"\\n">>
            [] Head(email_subject) = "\r" -> <<"\\r">>
            [] OTHER -> <<Head(email_subject)>>)
         \o format_email_subject(Tail(email_subject))

LoggerTpl == <<L("Logger "), F("logger_name"), L(", from module "),
               F("log_module"), L(" line "), F("log_lineno"), L(":")>>

logger_repr(d) ==
    IF FormatExc(LoggerTpl, d) # NoExc THEN TextExc(FormatExc(LoggerTpl, d))
    ELSE Text(Format(LoggerTpl, d))

NamedUserTpl  == <<F("user_full_name"), L(" ("), F("user_email"), L(")")>>
OnDeployTpl   == <<L(" on "), F("deployment"), L(" deployment")>>

user_info_str(d) ==
    LET d1    == Touch(d, "user_full_name")
        d2    == IF Truthy(d1["user_full_name"]) THEN Touch(d1, "user_email") ELSE d1
        named == Truthy(d2["user_full_name"]) /\ Truthy(d2["user_email"])
        who   == IF named THEN Format(NamedUserTpl, d2)
                 ELSE <<"Anonymous user (not logged in)">>
    IN  IF FormatExc(OnDeployTpl, d2) # NoExc
        THEN TextExcOn(d2, FormatExc(OnDeployTpl, d2))
        ELSE TextOn(d2, who \o Format(OnDeployTpl, d2))

RECURSIVE DeploymentLines(_)
DeploymentLines(m) ==
    IF m = <<>> THEN <<>>
    ELSE <<"- ", m[1][1], ": ", m[1][2], "\n">> \o DeploymentLines(Tail(m))

deployment_repr(d) ==
    LET d1 == Touch(d, "deployment_data")
    IN  IF d1["deployment_data"].t # "dict"
        THEN TextExcOn(d1, AttributeError("items"))
        ELSE TextOn(d1, <<"Deployed code:", "\n">>
                        \o DeploymentLines(d1["deployment_data"].m))

----------------------------------------------------------------------------
(* The four formatters, up to the point where they hand the message to the *)
(* backend: the exception raised while formatting, if any, the report left *)
(* behind, and the subject and body.                                       *)

Formatted(d, subj, bdy) == [exc |-> NoExc, report |-> d, subject |-> subj, body |-> bdy]
Raised(d, e)            == [exc |-> e, report |-> d, subject |-> <<>>, body |-> <<>>]

RequestFields == <<"REMOTE_ADDR", "QUERY_STRING", "SERVER_NAME">>

\* field.lower()
Lower(field) ==
    CASE field = "REMOTE_ADDR"  -> "remote_addr"
      [] field = "QUERY_STRING" -> "query_string"
      [] field = "SERVER_NAME"  -> "server_name"

(* ---- browser ---- *)

BrowserEmailSubjectTpl == <<L("Browser error for ")>>

BrowserEmailBodyTpl ==
    <<L("User: "), F("user_full_name"), L(" <"), F("user_email"), L("> on "),
      F("deployment"), NL, NL,
      L("Message:"), NL, F("message"), NL, NL,
      L("Stacktrace:"), NL, F("stacktrace"), NL, NL,
      L("IP address: "), F("ip_address"), NL,
      L("User agent: "), F("user_agent"), NL,
      L("href: "), F("href"), NL,
      L("Server path: "), F("server_path"), NL,
      L("Deployed version: "), F("version"), NL>>

RECURSIVE MoreInfoLines(_)
MoreInfoLines(m) ==
    IF m = <<>> THEN <<>>
    ELSE <<"\n", "  ", m[1][1], ": ", m[1][2]>> \o MoreInfoLines(Tail(m))

\* the section left out for an empty more_info as well
more_info_section_if_truthy(more_info) ==
    IF Truthy(more_info)
    THEN <<"\n", "Additional information:">> \o MoreInfoLines(more_info.m)
    ELSE <<>>

\* lines 65-69, for a more_info that is None or a dict
more_info_section(more_info) ==
    IF more_info # None
    THEN <<"\n", "Additional information:">> \o MoreInfoLines(more_info.m)
    ELSE <<>>

LogTpl == <<NL, NL, L("Log:"), NL, F("log")>>

email_browser_error_format(d) ==
    LET ui == user_info_str(d)
        d1 == ui.report
        d2 == Touch(d1, "more_info")
    IN  IF ui.exc # NoExc THEN Raised(d1, ui.exc)
        ELSE IF FormatExc(BrowserEmailBodyTpl, d1) # NoExc
        THEN Raised(d1, FormatExc(BrowserEmailBodyTpl, d1))
        ELSE IF d2["more_info"].t \notin {"none", "dict"}
        THEN Raised(d2, AttributeError("items"))
        ELSE IF FormatExc(LogTpl, d2) # NoExc
        THEN Raised(d2, FormatExc(LogTpl, d2))
        ELSE Formatted(d2,
                       Format(BrowserEmailSubjectTpl, d1) \o ui.text,
                       Format(BrowserEmailBodyTpl, d1)
                       \o more_info_section(d2["more_info"])
                       \o Format(LogTpl, d2))

BrowserZulipSubjectTpl == <<L("JS error: "), F("user_email")>>
BrowserZulipMessageTpl == <<L("Message: "), F("message"), NL>>

zulip_browser_error_format(d) ==
    LET ui == user_info_str(d)
        d1 == ui.report
    IN  IF FormatExc(BrowserZulipSubjectTpl, d) # NoExc
        THEN Raised(d, FormatExc(BrowserZulipSubjectTpl, d))
        ELSE IF ui.exc # NoExc THEN Raised(d1, ui.exc)
        ELSE IF FormatExc(BrowserZulipMessageTpl, d1) # NoExc
        THEN Raised(d1, FormatExc(BrowserZulipMessageTpl, d1))
        ELSE Formatted(d1,
                       format_email_subject(Format(BrowserZulipSubjectTpl, d)),
                       <<"User: ">> \o ui.text \o <<"\n">>
                       \o Format(BrowserZulipMessageTpl, d1))

(* ---- server ---- *)

ServerSubjectTpl == <<F("node"), L(": "), F("message")>>

ZulipRequestTpl == <<L("Request info:"), NL, L("~~~~"), NL,
                     L("- path: "), F("path"), NL,
                     L("- "), F("method"), L(": "), F("data"), NL>>

EmailRequestTpl == <<L("Request info:"), NL,
                     L("- path: "), F("path"), NL,
                     L("- "), F("method"), L(": "), F("data"), NL>>

\* the redaction of QUERY_STRING left out
request_val_unredacted(d, field) == PyStr(Get(d, Lower(field)))

\* lines 116-118
zulip_request_val(d, field) ==
    IF field = "QUERY_STRING"
    THEN clean_data_from_query_parameters(PyStr(Get(d, Lower(field))))
    ELSE PyStr(Get(d, Lower(field)))

\* lines 160-162
email_request_val(d, field) ==
    IF field = "QUERY_STRING"
    THEN clean_data_from_query_parameters(PyStr(Get(d, Lower(field))))
    ELSE PyStr(Get(d, Lower(field)))

RequestLine(field, val) == <<"- ", field, ": \"">> \o val \o <<"\"", "\n">>

zulip_request_repr(d) ==
    LET d1 == Touch(d, "has_request")
    IN  IF ~Truthy(d1["has_request"]) THEN TextOn(d1, <<"Request info: none">>)
        ELSE IF FormatExc(ZulipRequestTpl, d1) # NoExc
        THEN TextExcOn(d1, FormatExc(ZulipRequestTpl, d1))
        ELSE TextOn(d1, Format(ZulipRequestTpl, d1)
                        \o RequestLine(RequestFields[1], zulip_request_val(d1, RequestFields[1]))
                        \o RequestLine(RequestFields[2], zulip_request_val(d1, RequestFields[2]))
                        \o RequestLine(RequestFields[3], zulip_request_val(d1, RequestFields[3]))
                        \o <<"~~~~">>)

email_request_repr(d) ==
    LET d1 == Touch(d, "has_request")
    IN  IF ~Truthy(d1["has_request"]) THEN TextOn(d1, <<"Request info: none", "\n">>)
        ELSE IF FormatExc(EmailRequestTpl, d1) # NoExc
        THEN TextExcOn(d1, FormatExc(EmailRequestTpl, d1))
        ELSE TextOn(d1, Format(EmailRequestTpl, d1)
                        \o RequestLine(RequestFields[1], email_request_val(d1, RequestFields[1]))
                        \o RequestLine(RequestFields[2], email_request_val(d1, RequestFields[2]))
                        \o RequestLine(RequestFields[3], email_request_val(d1, RequestFields[3])))

zulip_server_error_format(d) ==
    LET lg == logger_repr(d)
        ui == user_info_str(d)
        dp == deployment_repr(ui.report)
        rq == zulip_request_repr(dp.report)
        d4 == Touch(rq.report, "stack_trace")
    IN  IF FormatExc(ServerSubjectTpl, d) # NoExc
        THEN Raised(d, FormatExc(ServerSubjectTpl, d))
        ELSE IF lg.exc # NoExc THEN Raised(d, lg.exc)
        ELSE IF ui.exc # NoExc THEN Raised(ui.report, ui.exc)
        ELSE IF dp.exc # NoExc THEN Raised(dp.report, dp.exc)
        ELSE IF rq.exc # NoExc THEN Raised(rq.report, rq.exc)
        ELSE Formatted(d4,
                       format_email_subject(Format(ServerSubjectTpl, d)),
                       lg.text \o <<"\n", "Error generated by ">> \o ui.text
                       \o <<"\n", "\n", "~~~~ pytb", "\n">>
                       \o PyStr(d4["stack_trace"])
                       \o <<"\n", "\n", "~~~~", "\n">>
                       \o dp.text \o <<"\n">> \o rq.text)

email_server_error_format(d) ==
    LET lg == logger_repr(d)
        ui == user_info_str(d)
        dp == deployment_repr(ui.report)
        rq == email_request_repr(dp.report)
        d4 == Touch(rq.report, "stack_trace")
    IN  IF FormatExc(ServerSubjectTpl, d) # NoExc
        THEN Raised(d, FormatExc(ServerSubjectTpl, d))
        ELSE IF lg.exc # NoExc THEN Raised(d, lg.exc)
        ELSE IF ui.exc # NoExc THEN Raised(ui.report, ui.exc)
        ELSE IF dp.exc # NoExc THEN Raised(dp.report, dp.exc)
        ELSE IF rq.exc # NoExc THEN Raised(rq.report, rq.exc)
        ELSE Formatted(d4,
                       format_email_subject(Format(ServerSubjectTpl, d)),
                       lg.text \o <<"\n", "Error generated by ">> \o ui.text
                       \o <<"\n", "\n">>
                       \o PyStr(d4["stack_trace"])
                       \o <<"\n", "\n">>
                       \o dp.text \o <<"\n", "\n">> \o rq.text)

----------------------------------------------------------------------------
(* Inputs *)

ErrorBots == {None, Str(<<"error-bot@zulip.com">>)}

DeploymentNames == {<<"prod">>, <<"stag", "\n", "ing">>}

Types == {"browser", "server", "client"}

BaseBrowserReport ==
    [k \in AllKeys |->
        CASE k = "user_full_name" -> Str(<<"Hamlet">>)
          [] k = "user_email"     -> Str(<<"hamlet@zulip.com">>)
          [] k = "deployment"     -> Str(<<"dev">>)
          [] k = "message"        -> Str(<<"ReferenceError">>)
          [] k = "stacktrace"     -> Str(<<"at app.js:1">>)
          [] k = "ip_address"     -> Str(<<"127.0.0.1">>)
          [] k = "user_agent"     -> Str(<<"Mozilla">>)
          [] k = "href"           -> Str(<<"/#narrow">>)
          [] k = "server_path"    -> Str(<<"/srv/zulip">>)
          [] k = "version"        -> Str(<<"3.0">>)
          [] k = "more_info"      -> Dict(<<<<"draft", "yes">>>>)
          [] k = "log"            -> Str(<<"console">>)
          [] OTHER                -> Absent]

BaseServerReport ==
    [k \in AllKeys |->
        CASE k = "node"            -> Str(<<"node1">>)
          [] k = "message"         -> Str(<<"KeyError">>)
          [] k = "logger_name"     -> Str(<<"zulip.requests">>)
          [] k = "log_module"      -> Str(<<"handlers">>)
          [] k = "log_lineno"      -> Str(<<"42">>)
          [] k = "user_full_name"  -> Str(<<"Hamlet">>)
          [] k = "user_email"      -> Str(<<"hamlet@zulip.com">>)
          [] k = "deployment"      -> Str(<<"dev">>)
          [] k = "deployment_data" -> Dict(<<<<"git", "abc123">>, <<"ZULIP_VERSION", "3.0">>>>)
          [] k = "has_request"     -> Bool(TRUE)
          [] k = "path"            -> Str(<<"/json/messages">>)
          [] k = "method"          -> Str(<<"POST">>)
          [] k = "data"            -> Str(<<"{}">>)
          [] k = "remote_addr"     -> Str(<<"10.0.0.1">>)
          [] k = "query_string"    -> Str(<<"api_key", "=", "secret", "&", "stream", "=", "errors">>)
          [] k = "server_name"     -> Str(<<"zulip.example.com">>)
          [] k = "stack_trace"     -> Str(<<"Traceback">>)
          [] OTHER                 -> Absent]

\* what an edit may put under a key, besides leaving the key out
Alternatives(k) ==
    CASE k = "more_info"       -> {None, Dict(<<>>),
                                   Dict(<<<<"draft", "yes">>, <<"tab", "2">>>>)}
      [] k = "deployment_data" -> {None, Dict(<<>>)}
      [] k = "has_request"     -> {None, Bool(FALSE)}
      [] k = "query_string"    -> {None, Str(<<>>), Str(<<"narrow">>)}
      [] OTHER                 -> {None, Str(<<>>), Str(<<"x", "\r", "\n", "y">>)}

Edit1(d, keys) ==
    {d} \cup {SetItem(d, k, Absent) : k \in keys}
        \cup UNION {{SetItem(d, k, v) : v \in Alternatives(k)} : k \in keys}

RECURSIVE EditN(_, _, _)
EditN(S, keys, n) ==
    IF n = 0 THEN S ELSE EditN(UNION {Edit1(d, keys) : d \in S}, keys, n - 1)

BrowserReports == EditN({BaseBrowserReport}, BrowserKeys, MaxEdits)
ServerReports  == EditN({BaseServerReport}, ServerKeys, MaxEdits)

Call(fn, type, name, skip, rep) ==
    [fn |-> fn, type |-> type, deployment_name |-> name, skip |-> skip, report |-> rep]

Calls ==
    {Call("do_report_error", "browser", n, FALSE, r) :
        n \in DeploymentNames, r \in BrowserReports}
    \cup {Call("do_report_error", "server", n, FALSE, r) :
        n \in DeploymentNames, r \in ServerReports}
    \cup {Call("do_report_error", "client", n, FALSE, r) :
        n \in DeploymentNames, r \in BrowserReports \cup {BaseServerReport}}
    \cup {Call("notify_browser_error", "", <<>>, FALSE, r) : r \in BrowserReports}
    \cup {Call("notify_server_error", "", <<>>, skip, r) :
        skip \in BOOLEAN, r \in ServerReports}

----------------------------------------------------------------------------
(* Events and responses *)

CallEv(fn) ==
    [ev |-> "call", fn |-> fn, subject |-> <<>>, body |-> <<>>,
     fail_silently |-> FALSE, failed |-> FALSE,
     realm |-> "", sender |-> <<>>, stream |-> "", stream_realm |-> ""]

\* mail_admins(subject, message, fail_silently)
MailEv(fn, subj, bdy, fs, failed) ==
    [ev |-> "mail_admins", fn |-> fn, subject |-> subj, body |-> bdy,
     fail_silently |-> fs, failed |-> failed,
     realm |-> "", sender |-> <<>>, stream |-> "", stream_realm |-> ""]

\* internal_send_stream_message(realm, sender, stream, topic, content)
ChatEv(fn, realm, sender, stream, topic, content) ==
    [ev |-> "internal_send_stream_message", fn |-> fn, subject |-> topic,
     body |-> content, fail_silently |-> FALSE, failed |-> FALSE,
     realm |-> realm, sender |-> sender.email, stream |-> stream.name,
     stream_realm |-> stream.realm]

NoResponse      == [result |-> "", msg |-> ""]
json_success    == [result |-> "success", msg |-> ""]
json_error(msg) == [result |-> "error", msg |-> msg]

----------------------------------------------------------------------------
(* The state machine *)

Init ==
    /\ settings_ERROR_BOT \in ErrorBots
    /\ \E c \in Calls :
        /\ entry = c.fn
        /\ arg_type = c.type
        /\ arg_deployment_name = c.deployment_name
        /\ skip_error_zulip = c.skip
        /\ arg_report = c.report
        /\ caller_report = c.report
        /\ pc = c.fn
    /\ report = EmptyDict
    /\ todo = <<>>
    /\ trace = <<>>
    /\ outcome = "running"
    /\ response = NoResponse
    /\ exception = NoExc

Inputs == <<settings_ERROR_BOT, entry, arg_type, arg_deployment_name,
            skip_error_zulip, arg_report>>

\* line 180
set_deployment(d, deployment_name) == SetItem(d, "deployment", Str(deployment_name))

\* the branches of the two report types exchanged
RouteSwapped(type) ==
    CASE type = "browser" -> "notify_server_error"
      [] type = "server"  -> "notify_browser_error"
      [] OTHER            -> "json_error"

\* the else branch dropped: every other type is treated as a server report
RouteNoElse(type) ==
    CASE type = "browser" -> "notify_browser_error"
      [] OTHER            -> "notify_server_error"

\* lines 181-186: the branch taken for a type
Route(type) ==
    CASE type = "browser" -> "notify_browser_error"
      [] type = "server"  -> "notify_server_error"
      [] OTHER            -> "json_error"

\* lines 42-44: the formatters notify_browser_error calls, in order
notify_browser_error_plan(bot) ==
    IF Truthy(bot) THEN <<"zulip_browser_error", "email_browser_error">>
    ELSE <<"email_browser_error">>

\* skip_error_zulip ignored
notify_server_error_plan_noskip(bot, skip) ==
    IF Truthy(bot) THEN <<"email_server_error", "zulip_server_error">>
    ELSE <<"email_server_error">>

\* the chat message sent before the email
notify_server_error_plan_chatfirst(bot, skip) ==
    IF Truthy(bot) /\ ~skip THEN <<"zulip_server_error", "email_server_error">>
    ELSE <<"email_server_error">>

\* lines 97-99: the formatters notify_server_error calls, in order
notify_server_error_plan(bot, skip) ==
    IF Truthy(bot) /\ ~skip THEN <<"email_server_error", "zulip_server_error">>
    ELSE <<"email_server_error">>

\* the formatters given the caller's own mapping
notify_report_object_aliased == "caller"

\* lines 41 and 96: the name report is rebound to a new defaultdict holding
\* the caller's items, so that is the object the formatters read and write
notify_report_object == "defaultdict"

\* an exception leaves the formatter and, nothing catching it, the entry function
Raise(e) ==
    /\ pc' = "done"
    /\ outcome' = "raised"
    /\ exception' = e
    /\ todo' = <<>>
    /\ UNCHANGED response

\* the formatter returns to notify_*_error, which goes on with its next call
Continue ==
    /\ pc' = IF todo = <<>> THEN "return" ELSE Head(todo)
    /\ todo' = IF todo = <<>> THEN <<>> ELSE Tail(todo)
    /\ UNCHANGED <<outcome, exception, response>>

do_report_error ==
    /\ pc = "do_report_error"
    /\ caller_report' = set_deployment(caller_report, arg_deployment_name)
    /\ IF Route(arg_type) = "json_error"
       THEN /\ response' = json_error(<<"Invalid type parameter">>)
            /\ outcome' = "returned"
            /\ pc' = "done"
       ELSE /\ pc' = Route(arg_type)
            /\ UNCHANGED <<response, outcome>>
    /\ UNCHANGED <<Inputs, report, todo, trace, exception>>

notify_browser_error ==
    /\ pc = "notify_browser_error"
    /\ report' = caller_report
    /\ pc' = Head(notify_browser_error_plan(settings_ERROR_BOT))
    /\ todo' = Tail(notify_browser_error_plan(settings_ERROR_BOT))
    /\ UNCHANGED <<Inputs, caller_report, trace, outcome, response, exception>>

notify_server_error ==
    /\ pc = "notify_server_error"
    /\ report' = caller_report
    /\ pc' = Head(notify_server_error_plan(settings_ERROR_BOT, skip_error_zulip))
    /\ todo' = Tail(notify_server_error_plan(settings_ERROR_BOT, skip_error_zulip))
    /\ UNCHANGED <<Inputs, caller_report, trace, outcome, response, exception>>

\* lines 73 and 177: mail_admins raises what the mail backend raises unless
\* told to fail silently
SendMail(fn, res, fail_silently) ==
    \E failed \in BOOLEAN :
        /\ trace' = trace \o <<CallEv(fn),
                               MailEv(fn, res.subject, res.body, fail_silently, failed)>>
        /\ IF failed /\ ~fail_silently THEN Raise(SMTPException) ELSE Continue

\* lines 83-93 and 134-144: the stream lookup raises when the realm of the
\* error bot has no stream named errors
SendChat(fn, res) ==
    \E stream_exists \in BOOLEAN :
        LET error_bot     == get_system_bot(settings_ERROR_BOT.s)
            realm         == error_bot.realm
            errors_stream == get_stream("errors", realm)
        IN  IF stream_exists
            THEN /\ trace' = trace \o <<CallEv(fn),
                                        ChatEv(fn, realm, error_bot, errors_stream,
                                               res.subject, res.body)>>
                 /\ Continue
            ELSE /\ trace' = Append(trace, CallEv(fn))
                 /\ Raise(DoesNotExist)

Formatter(fn, res, send) ==
    /\ pc = fn
    /\ report' = res.report
    /\ IF res.exc # NoExc
       THEN /\ trace' = Append(trace, CallEv(fn))
            /\ Raise(res.exc)
       ELSE send
    /\ caller_report' = IF notify_report_object = "defaultdict"
                        THEN caller_report ELSE res.report
    /\ UNCHANGED Inputs

zulip_browser_error ==
    LET res == zulip_browser_error_format(report)
    IN  Formatter("zulip_browser_error", res, SendChat("zulip_browser_error", res))

email_browser_error ==
    LET res == email_browser_error_format(report)
    IN  Formatter("email_browser_error", res,
                  SendMail("email_browser_error", res, FALSE))

email_server_error ==
    LET res == email_server_error_format(report)
    IN  Formatter("email_server_error", res,
                  SendMail("email_server_error", res, TRUE))

zulip_server_error ==
    LET res == zulip_server_error_format(report)
    IN  Formatter("zulip_server_error", res, SendChat("zulip_server_error", res))

\* notify_*_error returns None; do_report_error goes on to line 187
Return ==
    /\ pc = "return"
    /\ response' = IF entry = "do_report_error" THEN json_success ELSE NoResponse
    /\ outcome' = "returned"
    /\ pc' = "done"
    /\ UNCHANGED <<Inputs, caller_report, report, todo, trace, exception>>

Next ==
    \/ do_report_error
    \/ notify_browser_error
    \/ notify_server_error
    \/ zulip_browser_error
    \/ email_browser_error
    \/ email_server_error
    \/ zulip_server_error
    \/ Return

Spec == Init /\ [][Next]_vars

----------------------------------------------------------------------------
(* Vocabulary of the properties *)

Done == pc = "done"

BrowserDispatch ==
    \/ entry = "notify_browser_error"
    \/ entry = "do_report_error" /\ arg_type = "browser"

ServerDispatch ==
    \/ entry = "notify_server_error"
    \/ entry = "do_report_error" /\ arg_type = "server"

BrowserFormatters == {"zulip_browser_error", "email_browser_error"}
ServerFormatters  == {"email_server_error", "zulip_server_error"}

\* positions of the trace holding an event of that kind
At(ev) == {i \in 1..Len(trace) : trace[i].ev = ev}

Invoked(fn) == \E i \in At("call") : trace[i].fn = fn

Sends == At("mail_admins") \cup At("internal_send_stream_message")

HasToken(txt, tok) == \E i \in 1..Len(txt) : txt[i] = tok

----------------------------------------------------------------------------
(* C1 *)

\* C1: do_report_error with type browser invokes browser formatters only,
\* with type server server formatters only, and in both cases the response
\* it returns is the success response, the administrator email formatter of
\* that type having been invoked.
C1_RoutesByType ==
    entry = "do_report_error" =>
        /\ arg_type = "browser" =>
            /\ \A i \in 1..Len(trace) : trace[i].fn \in BrowserFormatters
            /\ Done /\ outcome = "returned" =>
                response = json_success /\ Invoked("email_browser_error")
        /\ arg_type = "server" =>
            /\ \A i \in 1..Len(trace) : trace[i].fn \in ServerFormatters
            /\ Done /\ outcome = "returned" =>
                response = json_success /\ Invoked("email_server_error")

C1_Witness ==
    /\ Done
    /\ entry = "do_report_error"
    /\ arg_type = "server"
    /\ response = json_success
    /\ Invoked("email_server_error")
    /\ Invoked("zulip_server_error")

----------------------------------------------------------------------------
(* C2 *)

\* C2: when the mail backend fails while the administrator email is sent,
\* the failure does not propagate out of the dispatch, and do_report_error
\* still returns the success response (unless something else was raised).
C2_MailFailureSwallowed ==
    (\E i \in At("mail_admins") : trace[i].failed) =>
        /\ exception # SMTPException
        /\ Done /\ entry = "do_report_error" /\ exception = NoExc =>
            response = json_success

----------------------------------------------------------------------------
(* C3 *)

\* C3: on every channel the subject handed to mail_admins or to
\* internal_send_stream_message holds no raw CR or LF.
C3_NoRawNewlineInSubject ==
    \A i \in Sends :
        ~HasToken(trace[i].subject, "\n") /\ ~HasToken(trace[i].subject, "\r")

----------------------------------------------------------------------------
(* C4 *)

\* C4: a report that omits fields is dispatched without a missing-key error.
C4_NoMissingKeyError ==
    (BrowserDispatch \/ ServerDispatch) => exception.type # "KeyError"

----------------------------------------------------------------------------
(* C5 *)

\* the value between the quotes of the QUERY_STRING line of a message
QueryStringValue(bdy) ==
    LET q == CHOOSE i \in 1..Len(bdy) - 2 :
                 bdy[i] = "- " /\ bdy[i + 1] = "QUERY_STRING" /\ bdy[i + 2] = ": \""
        e == CHOOSE j \in q + 3..Len(bdy) :
                 bdy[j] = "\"" /\ \A n \in q + 3..j - 1 : bdy[n] # "\""
    IN  SubSeq(bdy, q + 3, e - 1)

HasQueryStringLine(bdy) ==
    \E i \in 1..Len(bdy) - 2 :
        bdy[i] = "- " /\ bdy[i + 1] = "QUERY_STRING" /\ bdy[i + 2] = ": \""

\* the parameter values of a query string: the tokens between a = and the
\* next & or the end
ParamValues(q) ==
    {q[i] : i \in {n \in 1..Len(q) :
        /\ q[n] \notin {"=", "&"}
        /\ \E a \in 1..n - 1 :
            q[a] = "=" /\ \A b \in a + 1..n : q[b] # "&"}}

\* C5: in a server report with has_request set, the QUERY_STRING line of the
\* email body and of the chat message holds the redacted query string, and
\* no parameter value of the report's query_string.
C5_QueryStringRedacted ==
    \A i \in Sends :
        (trace[i].fn \in ServerFormatters /\ Truthy(Get(arg_report, "has_request"))) =>
            /\ HasQueryStringLine(trace[i].body)
            /\ QueryStringValue(trace[i].body)
                = clean_data_from_query_parameters(PyStr(Get(arg_report, "query_string")))
            /\ \A v \in ParamValues(PyStr(Get(arg_report, "query_string"))) :
                ~HasToken(QueryStringValue(trace[i].body), v)

C5_Witness ==
    /\ Done
    /\ ParamValues(PyStr(Get(arg_report, "query_string"))) = {"secret", "errors"}
    /\ \E i \in At("mail_admins") :
        /\ HasQueryStringLine(trace[i].body)
        /\ QueryStringValue(trace[i].body)
            = <<"api_key", "=", "******", "&", "stream", "=", "******">>
    /\ \E i \in At("internal_send_stream_message") :
        /\ HasQueryStringLine(trace[i].body)
        /\ QueryStringValue(trace[i].body)
            = <<"api_key", "=", "******", "&", "stream", "=", "******">>

----------------------------------------------------------------------------
(* C6 *)

\* C6: for a type other than browser and server, do_report_error returns
\* the error response "Invalid type parameter" and nothing is sent.
C6_InvalidType ==
    (entry = "do_report_error" /\ arg_type \notin {"browser", "server"}) =>
        /\ Sends = {}
        /\ Done => /\ outcome = "returned"
                   /\ response = json_error(<<"Invalid type parameter">>)

C6_Witness ==
    /\ Done
    /\ entry = "do_report_error"
    /\ arg_type = "client"
    /\ response = json_error(<<"Invalid type parameter">>)
    /\ trace = <<>>

----------------------------------------------------------------------------
(* C7 *)

ChatExpected ==
    Truthy(settings_ERROR_BOT) /\ (ServerDispatch => ~skip_error_zulip)

\* C7: a dispatch that completes has handed exactly one email to mail_admins,
\* and one chat message if ERROR_BOT is set and, for a server report,
\* skip_error_zulip is false, and none otherwise; the chat message goes to
\* the stream errors of the error bot's realm, sent by the error bot.
C7_ChannelGating ==
    (Done /\ outcome = "returned" /\ (BrowserDispatch \/ ServerDispatch)) =>
        /\ Cardinality(At("mail_admins")) = 1
        /\ Cardinality(At("internal_send_stream_message"))
            = IF ChatExpected THEN 1 ELSE 0
        /\ \A i \in At("internal_send_stream_message") :
            /\ trace[i].stream = "errors"
            /\ trace[i].sender = settings_ERROR_BOT.s
            /\ trace[i].realm = get_system_bot(settings_ERROR_BOT.s).realm
            /\ trace[i].stream_realm = trace[i].realm

C7_Witness ==
    /\ Done
    /\ outcome = "returned"
    /\ entry = "notify_server_error"
    /\ skip_error_zulip
    /\ Truthy(settings_ERROR_BOT)
    /\ Cardinality(At("mail_admins")) = 1
    /\ At("internal_send_stream_message") = {}

----------------------------------------------------------------------------
(* C8 *)

\* the position of a token that occurs in a text
IndexOf(txt, tok) == CHOOSE i \in 1..Len(txt) : txt[i] = tok

\* lines is one "\n  key: value" line per entry of m, in the order of m
InfoLinesOf(lines, m) ==
    /\ Len(lines) = 5 * Len(m)
    /\ \A n \in 1..Len(m) :
        SubSeq(lines, 5 * n - 4, 5 * n) = <<"\n", "  ", m[n][1], ": ", m[n][2]>>

BrowserEmailBodyShape(bdy, more_info, log) ==
    /\ HasToken(bdy, "Log:")
    /\ LET j == IndexOf(bdy, "Log:")
       IN  /\ j > 2
           /\ SubSeq(bdy, j - 2, j + 1) = <<"\n", "\n", "Log:", "\n">>
           /\ SubSeq(bdy, j + 2, Len(bdy)) = PyStr(log)
           /\ HasToken(bdy, "Additional information:") <=> more_info # None
           /\ more_info # None =>
               LET a == IndexOf(bdy, "Additional information:")
               IN  /\ a < j
                   /\ bdy[a - 1] = "\n"
                   /\ bdy[a - 2] = "\n"
                   /\ InfoLinesOf(SubSeq(bdy, a + 1, j - 3), more_info.m)
           /\ more_info = None => bdy[j - 3] = "\n"

\* C8: the body of the browser error email has the section Additional
\* information exactly when more_info is not None, with one line per entry
\* in mapping order, and the section Log always, last.
C8_BrowserEmailSections ==
    \A i \in At("mail_admins") :
        trace[i].fn = "email_browser_error" =>
            BrowserEmailBodyShape(trace[i].body, Get(arg_report, "more_info"),
                                  arg_report["log"])

C8_Witness ==
    \E i \in At("mail_admins") :
        /\ trace[i].fn = "email_browser_error"
        /\ Get(arg_report, "more_info") = Dict(<<<<"draft", "yes">>, <<"tab", "2">>>>)
        /\ HasToken(trace[i].body, "Additional information:")
        /\ IndexOf(trace[i].body, "tab") < IndexOf(trace[i].body, "Log:")

----------------------------------------------------------------------------
(* C9 *)

\* C9: notify_server_error invokes the email formatter first, so that it has
\* been invoked in every server dispatch however the chat send ends, and every
\* chat message follows the email; notify_browser_error with ERROR_BOT set
\* invokes the chat formatter first and the email formatter only after the
\* chat message has been sent.
C9_OrderOfSends ==
    /\ ServerDispatch =>
        /\ trace # <<>> => trace[1] = CallEv("email_server_error")
        /\ Done => Invoked("email_server_error")
        /\ \A j \in At("internal_send_stream_message") :
            \E i \in At("mail_admins") : i < j
    /\ (BrowserDispatch /\ Truthy(settings_ERROR_BOT)) =>
        /\ trace # <<>> => trace[1] = CallEv("zulip_browser_error")
        /\ \A j \in At("call") :
            trace[j].fn = "email_browser_error" =>
                \E i \in At("internal_send_stream_message") : i < j

C9_Witness ==
    /\ Done
    /\ ServerDispatch
    /\ exception = DoesNotExist
    /\ Invoked("zulip_server_error")
    /\ \E i \in At("mail_admins") : trace[i].fn = "email_server_error"

----------------------------------------------------------------------------
(* C10 *)

\* C10: notify_browser_error and notify_server_error leave the caller's
\* report as it was, keys looked up while absent included; do_report_error
\* sets deployment to deployment_name in it and changes nothing else.
C10_CallerReportFrame ==
    /\ entry \in {"notify_browser_error", "notify_server_error"} =>
        caller_report = arg_report
    /\ entry = "do_report_error" =>
        /\ \A k \in AllKeys \ {"deployment"} : caller_report[k] = arg_report[k]
        /\ pc # "do_report_error" =>
            caller_report["deployment"] = Str(arg_deployment_name)

C10_Witness ==
    /\ Done
    /\ entry = "do_report_error"
    /\ ~Has(arg_report, "more_info")
    /\ report["more_info"] = None
    /\ ~Has(caller_report, "more_info")
    /\ arg_report["deployment"] = Str(<<"dev">>)
    /\ caller_report["deployment"] = Str(<<"prod">>)

====
